---- MODULE Spec2Model ----
(***************************************************************************)
(* State-machine model of the run-time routines of KexDll/kexrtl.c:        *)
(*   KexRtlWriteProcessMemory        (SpecWrite)                           *)
(*   KexRtlGetNativeSystemDllBase    (SpecScan)                            *)
(*   KexRtlMiniGetProcedureAddress   (SpecExport)                          *)
(*   KexRtlFindUnicodeSubstring      (SpecFind)                            *)
(*   KexRtlQueryKeyMultipleValueData (SpecQuery)                           *)
(* Each routine has its own initial predicate and next-state relation over *)
(* its own group of variables; the other groups stay at their defaults.    *)
(***************************************************************************)
EXTENDS Integers, Sequences, FiniteSets, TLC

VARIABLES
    \* ---- KexRtlWriteProcessMemory ----
    prot,       \* page -> current protection of the target process' pages
    orig,       \* page -> protection before any call (history)
    wr,         \* caller -> locals of its KexRtlWriteProcessMemory call
    os,         \* caller -> record of the OS calls it issued (history)
    overlap,    \* a call was entered while the other was in progress (history)
    rbw,        \* a restore ran while the other call's write was pending (history)
    \* ---- KexRtlGetNativeSystemDllBase ----
    space,      \* the allocations of the current process' address space
    sc,         \* locals of the KexRtlGetNativeSystemDllBase call
    cnt,        \* iterations, queries and probe addresses so far (history)
    \* ---- KexRtlMiniGetProcedureAddress ----
    img,        \* the image at DllBase: its export directory, if any
    ex,         \* arguments and locals of the KexRtlMiniGetProcedureAddress call
    \* ---- KexRtlFindUnicodeSubstring ----
    fin,        \* the arguments: Haystack, Needle, CaseInsensitive, memory past them
    fd,         \* locals of the KexRtlFindUnicodeSubstring call
    \* ---- KexRtlQueryKeyMultipleValueData ----
    reg,        \* the values of the registry key
    qk          \* arguments, query table and locals of the call

wvars == <<prot, orig, wr, os, overlap, rbw>>
svars == <<space, sc, cnt>>
evars == <<img, ex>>
fvars == <<fin, fd>>
qvars == <<reg, qk>>

vars == <<wvars, svars, evars, fvars, qvars>>

-----------------------------------------------------------------------------
(***************************************************************************)
(* KexRtlWriteProcessMemory                                                *)
(***************************************************************************)

\* Bounds of the modelled target address space.
PageSize == 2
NumPages == 2
MaxCb == 2

Callers == {1, 2}
Pages == 0 .. (NumPages - 1)
AddressSpaceSize == NumPages * PageSize

PAGE_READONLY == "PAGE_READONLY"
PAGE_EXECUTE_READ == "PAGE_EXECUTE_READ"
PAGE_READWRITE == "PAGE_READWRITE"
Protections == {PAGE_READONLY, PAGE_EXECUTE_READ, PAGE_READWRITE}

STATUS_SUCCESS == "STATUS_SUCCESS"
STATUS_ACCESS_DENIED == "STATUS_ACCESS_DENIED"
STATUS_INVALID_PARAMETER == "STATUS_INVALID_PARAMETER"
STATUS_PARTIAL_COPY == "STATUS_PARTIAL_COPY"
NoStatus == "none"
Uninitialized == "uninitialized"

\* The pages a byte range [addr, addr + size) touches (size > 0).
PageOf(addr) == addr \div PageSize
PagesOfRange(addr, size) == { p \in Pages : PageOf(addr) <= p /\ p <= PageOf(addr + size - 1) }

\* What NtProtectVirtualMemory writes back through its in/out BaseAddress and
\* RegionSize arguments on success: the range rounded out to page boundaries.
RoundedBase(addr) == PageOf(addr) * PageSize
RoundedSize(addr, size) == (PageOf(addr + size - 1) + 1) * PageSize - RoundedBase(addr)

\* NT_SUCCESS
NT_SUCCESS(Status) == Status = STATUS_SUCCESS

IdleCall ==
    [pc |-> "idle", Destination |-> 0, Cb |-> 0,
     DestinationPageAddress |-> 0, DestinationPageSize |-> 0,
     OldProtect |-> Uninitialized, Status |-> NoStatus]

NoOsCalls ==
    [protectSt |-> NoStatus, writeSt |-> NoStatus, restoreSt |-> NoStatus,
     nProtect |-> 0, nWrite |-> 0, nRestore |-> 0,
     writeArgs |-> <<0, 0>>, restoreArgs |-> <<0, 0>>,
     restoreProt |-> Uninitialized, captured |-> Uninitialized]

WriteUnused ==
    /\ orig = [p \in Pages |-> PAGE_READONLY]
    /\ prot = orig
    /\ wr = [t \in Callers |-> IdleCall]
    /\ os = [t \in Callers |-> NoOsCalls]
    /\ overlap = FALSE
    /\ rbw = FALSE

WriteStart ==
    /\ orig \in [Pages -> Protections]
    /\ prot = orig
    /\ wr = [t \in Callers |-> IdleCall]
    /\ os = [t \in Callers |-> NoOsCalls]
    /\ overlap = FALSE
    /\ rbw = FALSE

InProgress(t) == wr[t].pc \in {"protect", "write", "restore"}

\* Entry: DestinationPageAddress = Destination; DestinationPageSize = Cb.
\* The two callers are interchangeable, so the second is taken to enter after
\* the first has.
WriteCall(t) ==
    /\ wr[t].pc = "idle"
    /\ \A u \in Callers : u < t => wr[u].pc # "idle"
    /\ \E dest \in 0 .. (AddressSpaceSize - 1), cb \in 0 .. MaxCb :
          /\ dest + cb <= AddressSpaceSize
          /\ wr' = [wr EXCEPT ![t] =
                       [IdleCall EXCEPT !.pc = "protect", !.Destination = dest, !.Cb = cb,
                                        !.DestinationPageAddress = dest,
                                        !.DestinationPageSize = cb]]
    /\ overlap' = (overlap \/ \E u \in Callers \ {t} : InProgress(u))
    /\ UNCHANGED <<prot, orig, os, rbw, svars, evars, fvars, qvars>>

\* Status = NtProtectVirtualMemory(&DestinationPageAddress, &DestinationPageSize,
\*                                  PAGE_READWRITE, &OldProtect);
\* if (!NT_SUCCESS(Status)) return Status;
ProtectStep(t) ==
    /\ wr[t].pc = "protect"
    /\ \E st \in {STATUS_SUCCESS, STATUS_ACCESS_DENIED, STATUS_INVALID_PARAMETER} :
          /\ (wr[t].DestinationPageSize = 0) => (st = STATUS_INVALID_PARAMETER)
          /\ (st = STATUS_INVALID_PARAMETER) => (wr[t].DestinationPageSize = 0)
          /\ os' = [os EXCEPT ![t].protectSt = st, ![t].nProtect = @ + 1,
                              ![t].captured =
                                  IF NT_SUCCESS(st)
                                  THEN prot[PageOf(wr[t].DestinationPageAddress)]
                                  ELSE @]
          /\ IF NT_SUCCESS(st)
             THEN LET a == wr[t].DestinationPageAddress
                      s == wr[t].DestinationPageSize
                  IN /\ prot' = [p \in Pages |->
                                   IF p \in PagesOfRange(a, s) THEN PAGE_READWRITE ELSE prot[p]]
                     /\ wr' = [wr EXCEPT ![t].pc = "write",
                                         ![t].Status = st,
                                         ![t].OldProtect = prot[PageOf(a)],
                                         ![t].DestinationPageAddress = RoundedBase(a),
                                         ![t].DestinationPageSize = RoundedSize(a, s)]
             ELSE /\ prot' = prot
                  /\ wr' = [wr EXCEPT ![t].pc = "done", ![t].Status = st]
    /\ UNCHANGED <<orig, overlap, rbw, svars, evars, fvars, qvars>>

\* The range handed to NtWriteVirtualMemory: (PVOID) Destination, Cb.
WriteRange(t) == <<wr[t].Destination, wr[t].Cb>>

\* Status = NtWriteVirtualMemory(ProcessHandle, (PVOID) Destination, Source, Cb, NULL);
\* The OS can complete the copy only into writable pages; it may also fail
\* for reasons of its own.
WriteStep(t) ==
    /\ wr[t].pc = "write"
    /\ \E st \in {STATUS_SUCCESS, STATUS_PARTIAL_COPY} :
          /\ NT_SUCCESS(st) =>
                \A p \in PagesOfRange(WriteRange(t)[1], WriteRange(t)[2]) :
                    prot[p] = PAGE_READWRITE
          /\ wr' = [wr EXCEPT ![t].pc = "restore", ![t].Status = st]
          /\ os' = [os EXCEPT ![t].writeSt = st, ![t].nWrite = @ + 1,
                              ![t].writeArgs = WriteRange(t)]
    /\ UNCHANGED <<prot, orig, overlap, rbw, svars, evars, fvars, qvars>>

\* A slip that hands the caller's Destination and Cb to the restoring call.
RestoreRange_Requested(t) == <<wr[t].Destination, wr[t].Cb>>

\* The range handed to the restoring NtProtectVirtualMemory:
\* &DestinationPageAddress, &DestinationPageSize.
RestoreRange(t) == <<wr[t].DestinationPageAddress, wr[t].DestinationPageSize>>

\* A slip that leaves the range relaxed: the restoring call asks for read/write.
RestoreProtection_Relaxed(t) == PAGE_READWRITE

\* The protection handed to the restoring call: OldProtect.
RestoreProtection(t) == wr[t].OldProtect

\* A slip that returns the restoring call's status.
ReturnedStatus_OfRestore(writeStatus, restoreStatus) == restoreStatus

\* return Status; the restoring call's result is not assigned.
ReturnedStatus(writeStatus, restoreStatus) == writeStatus

\* NtProtectVirtualMemory(&DestinationPageAddress, &DestinationPageSize,
\*                        OldProtect, &OldProtect);  return Status;
RestoreStep(t) ==
    /\ wr[t].pc = "restore"
    /\ \E st \in {STATUS_SUCCESS, STATUS_ACCESS_DENIED} :
          LET a == RestoreRange(t)[1]
              s == RestoreRange(t)[2]
              newProt == RestoreProtection(t)
          IN /\ os' = [os EXCEPT ![t].restoreSt = st, ![t].nRestore = @ + 1,
                                 ![t].restoreArgs = RestoreRange(t),
                                 ![t].restoreProt = newProt]
             /\ prot' = IF NT_SUCCESS(st)
                        THEN [p \in Pages |->
                                 IF p \in PagesOfRange(a, s) THEN newProt ELSE prot[p]]
                        ELSE prot
             /\ wr' = [wr EXCEPT ![t].pc = "done",
                                 ![t].Status = ReturnedStatus(wr[t].Status, st),
                                 ![t].OldProtect = IF NT_SUCCESS(st) THEN prot[PageOf(a)] ELSE @,
                                 ![t].DestinationPageAddress =
                                     IF NT_SUCCESS(st) THEN RoundedBase(a) ELSE @,
                                 ![t].DestinationPageSize =
                                     IF NT_SUCCESS(st) THEN RoundedSize(a, s) ELSE @]
    /\ rbw' = (rbw \/ \E u \in Callers \ {t} : wr[u].pc = "write")
    /\ UNCHANGED <<orig, overlap, svars, evars, fvars, qvars>>


\* ---- claims about KexRtlWriteProcessMemory ----

Returned(t) == wr[t].pc = "done"
OnlyCall(t) == \A u \in Callers \ {t} : wr[u].pc = "idle"
AllSucceeded(t) ==
    /\ NT_SUCCESS(os[t].protectSt)
    /\ NT_SUCCESS(os[t].writeSt)
    /\ NT_SUCCESS(os[t].restoreSt)
WithinPage(t, p) == wr[t].Cb > 0 /\ PagesOfRange(wr[t].Destination, wr[t].Cb) = {p}

\* C1 (as claimed): once a call that ran alone has returned, every page has
\* the protection it had before the call, whatever the OS calls' outcomes and
\* whatever the destination range.
C1_ProtectionRestoredOnEveryPath ==
    \A t \in Callers :
        (Returned(t) /\ OnlyCall(t)) => \A p \in Pages : prot[p] = orig[p]

\* C1 (amended): once a call that ran alone has returned: if its first
\* protection change failed no protection has changed; otherwise a restore
\* was attempted whatever the write's outcome, and if it succeeded every page
\* of the destination range has the protection the range's first page had
\* before the call, and if it failed the pages of the range are left
\* read/write; pages outside the range keep their protection.
C1_ProtectionAfterCall ==
    \A t \in Callers :
        (Returned(t) /\ OnlyCall(t)) =>
            IF ~NT_SUCCESS(os[t].protectSt)
            THEN prot = orig
            ELSE LET range == PagesOfRange(wr[t].Destination, wr[t].Cb)
                     first == PageOf(wr[t].Destination)
                 IN /\ os[t].nRestore = 1
                    /\ \A p \in Pages \ range : prot[p] = orig[p]
                    /\ \A p \in range :
                          prot[p] = IF NT_SUCCESS(os[t].restoreSt)
                                    THEN orig[first]
                                    ELSE PAGE_READWRITE

\* C1 witness: a call on a range that spans two read-only-executable pages
\* has returned after a failed write, and both pages are back to their
\* original protection.
C1_Witness_RangeRestoredAfterFailedWrite ==
    \E t \in Callers :
        /\ Returned(t) /\ OnlyCall(t)
        /\ Cardinality(PagesOfRange(wr[t].Destination, wr[t].Cb)) = 2
        /\ ~NT_SUCCESS(os[t].writeSt) /\ NT_SUCCESS(os[t].restoreSt)
        /\ \A p \in PagesOfRange(wr[t].Destination, wr[t].Cb) :
              orig[p] = PAGE_EXECUTE_READ /\ prot[p] = PAGE_EXECUTE_READ

\* C5: a call whose first protection change failed returns that failure with
\* no write and no restore attempted; otherwise it has attempted exactly one
\* write, on (Destination, Cb), and exactly one restore, and returns the
\* write's status.
C5_ReturnsWriteStatus ==
    \A t \in Callers :
        /\ Returned(t) =>
              IF NT_SUCCESS(os[t].protectSt)
              THEN /\ os[t].nProtect = 1 /\ os[t].nWrite = 1 /\ os[t].nRestore = 1
                   /\ os[t].writeArgs = <<wr[t].Destination, wr[t].Cb>>
                   /\ wr[t].Status = os[t].writeSt
              ELSE /\ os[t].nProtect = 1 /\ os[t].nWrite = 0 /\ os[t].nRestore = 0
                   /\ wr[t].Status = os[t].protectSt
        /\ os[t].nRestore <= os[t].nWrite
        /\ wr[t].pc = "restore" => os[t].nWrite = 1

\* C5 witness: a call has returned success although its restore failed.
C5_Witness_RestoreFailureSwallowed ==
    \E t \in Callers :
        /\ Returned(t)
        /\ NT_SUCCESS(os[t].writeSt)
        /\ ~NT_SUCCESS(os[t].restoreSt) /\ os[t].nRestore = 1
        /\ wr[t].Status = STATUS_SUCCESS

\* C8: two calls on one page, every OS call succeeding: when the calls did not
\* overlap the page ends with its original protection; when it does not end
\* with its original protection it ends read/write, and one call captured the
\* other's relaxed read/write protection as its previous value.
C8_RaceOnlyWhenInterleaved ==
    \A p \in Pages :
        ((\A t \in Callers : Returned(t) /\ AllSucceeded(t) /\ WithinPage(t, p))
            => /\ ~overlap => prot[p] = orig[p]
               /\ prot[p] # orig[p] =>
                     /\ overlap
                     /\ prot[p] = PAGE_READWRITE
                     /\ \E t \in Callers : os[t].captured = PAGE_READWRITE)

\* C8 witness: both calls have returned, every OS call succeeded, the second
\* call captured read/write as the previous protection, and the page is left
\* read/write instead of its original protection.
C8_Witness_PageLeftRelaxed ==
    \E p \in Pages :
        /\ \A t \in Callers : Returned(t) /\ AllSucceeded(t) /\ WithinPage(t, p)
        /\ orig[p] = PAGE_EXECUTE_READ
        /\ os[1].captured = PAGE_EXECUTE_READ
        /\ os[2].captured = PAGE_READWRITE
        /\ prot[p] = PAGE_READWRITE

\* The other interleaving C8 names: one call's restore ran while the other
\* call had relaxed the page and not yet written.
C8_RestoreBeforeOtherWrite ==
    \E p \in Pages :
        /\ \A t \in Callers : Returned(t) /\ WithinPage(t, p)
        /\ rbw

\* C10 (as claimed): the restoring call is handed the caller's Destination and Cb.
C10_RestoreUsesRequestedRange ==
    \A t \in Callers :
        os[t].nRestore = 1 => os[t].restoreArgs = <<wr[t].Destination, wr[t].Cb>>

\* C10 (amended): the restoring call is handed the page-rounded base and size
\* that the first protection change wrote back; the write is handed the
\* caller's Destination and Cb.
C10_RestoreUsesAlteredRange ==
    \A t \in Callers :
        os[t].nRestore = 1 =>
            /\ os[t].restoreArgs = <<RoundedBase(wr[t].Destination),
                                     RoundedSize(wr[t].Destination, wr[t].Cb)>>
            /\ os[t].writeArgs = <<wr[t].Destination, wr[t].Cb>>

\* C10 witness: a restore was issued on a range that differs from the
\* requested one.
C10_Witness_RangeDiffers ==
    \E t \in Callers :
        /\ os[t].nRestore = 1
        /\ os[t].restoreArgs # <<wr[t].Destination, wr[t].Cb>>
        /\ os[t].restoreArgs[1] < wr[t].Destination
        /\ os[t].restoreArgs[2] > wr[t].Cb

-----------------------------------------------------------------------------
(***************************************************************************)
(* KexRtlUnicodeStringEndsWith and KexRtlGetNativeSystemDllBase            *)
(* Strings are sequences of characters; addresses are byte addresses.      *)
(***************************************************************************)

NULL == 0

\* RtlInitConstantUnicodeString(&NtdllBaseName, L"ntdll.dll");
NtdllBaseName ==
    <<"n", "t", "d", "l", "l", ".", "d", "l", "l">>

\* RtlInitConstantUnicodeString(&NtdllPathFragment, L"Windows\\system32\\ntdll.dll");
NtdllPathFragment ==
    <<"W", "i", "n", "d", "o", "w", "s", "\\", "s", "y", "s", "t", "e", "m", "3", "2",
      "\\", "n", "t", "d", "l", "l", ".", "d", "l", "l">>

\* Mapped-file names the memory manager can report, in NT device form.
SystemNtdllPath ==
    <<"\\", "D", "e", "v", "i", "c", "e", "\\", "H", "a", "r", "d", "d", "i", "s", "k",
      "V", "o", "l", "u", "m", "e", "2", "\\", "W", "i", "n", "d", "o", "w", "s", "\\",
      "S", "y", "s", "t", "e", "m", "3", "2", "\\", "n", "t", "d", "l", "l", ".", "d", "l",
      "l">>
Wow64NtdllPath ==
    <<"\\", "D", "e", "v", "i", "c", "e", "\\", "H", "a", "r", "d", "d", "i", "s", "k",
      "V", "o", "l", "u", "m", "e", "2", "\\", "W", "i", "n", "d", "o", "w", "s", "\\",
      "S", "y", "s", "W", "O", "W", "6", "4", "\\", "n", "t", "d", "l", "l", ".", "d", "l",
      "l">>
OtherDllPath ==
    <<"\\", "D", "e", "v", "i", "c", "e", "\\", "H", "a", "r", "d", "d", "i", "s", "k",
      "V", "o", "l", "u", "m", "e", "2", "\\", "W", "i", "n", "d", "o", "w", "s", "\\",
      "S", "y", "s", "t", "e", "m", "3", "2", "\\", "k", "e", "r", "n", "e", "l", "3", "2",
      ".", "d", "l", "l">>
ShortNtdllPath ==
    <<"\\", "D", "e", "v", "i", "c", "e", "\\", "C", "d", "\\", "n", "t", "d", "l", "l",
      ".", "d", "l", "l">>
LowerCaseLetters ==
    <<"a", "b", "c", "d", "e", "f", "g", "h", "i", "j", "k", "l", "m", "n", "o", "p", "q",
      "r", "s", "t", "u", "v", "w", "x", "y", "z">>
UpperCaseLetters ==
    <<"A", "B", "C", "D", "E", "F", "G", "H", "I", "J", "K", "L", "M", "N", "O", "P", "Q",
      "R", "S", "T", "U", "V", "W", "X", "Y", "Z">>

\* RtlUpcaseUnicodeChar on the characters that occur in the modelled names.
Upcase(c) ==
    IF \E i \in 1 .. Len(LowerCaseLetters) : LowerCaseLetters[i] = c
    THEN UpperCaseLetters[CHOOSE i \in 1 .. Len(LowerCaseLetters) : LowerCaseLetters[i] = c]
    ELSE c

\* RtlEqualUnicodeString(String1, String2, CaseInSensitive)
RtlEqualUnicodeString(String1, String2, CaseInSensitive) ==
    /\ Len(String1) = Len(String2)
    /\ \A i \in 1 .. Len(String1) :
          IF CaseInSensitive
          THEN Upcase(String1[i]) = Upcase(String2[i])
          ELSE String1[i] = String2[i]

\* EndOfString.Buffer = String->Buffer + Cch(String) - Cch(EndsWith);
\* if (EndOfString.Buffer < String->Buffer) return FALSE;
\* return RtlEqualUnicodeString(&EndOfString, EndsWith, CaseInsensitive);
KexRtlUnicodeStringEndsWith(String, EndsWith, CaseInsensitive) ==
    LET Offset == Len(String) - Len(EndsWith)
    IN IF Offset < 0
       THEN FALSE
       ELSE RtlEqualUnicodeString(SubSeq(String, Offset + 1, Len(String)),
                                  EndsWith, CaseInsensitive)

\* for (NtdllBaseAddress = 0x7FFD0000; NtdllBaseAddress > 0x70000000;
\*      NtdllBaseAddress -= 0x10000)
ScanStart == 2147287040
ScanLowerBound == 1879048192
ScanStep == 65536

\* Bounds of the modelled address spaces: how far below the scan's start the
\* upper allocation may begin and how many granules an allocation may span.
MaxOffset == 2
MaxAllocSize == 2

MEM_IMAGE == "MEM_IMAGE"
MEM_MAPPED == "MEM_MAPPED"
MEM_PRIVATE == "MEM_PRIVATE"

\* What an allocation can be: an image or data mapping of a file, or private
\* memory (which has no mapped file name).
AllocationKinds ==
    {[Type |-> MEM_IMAGE, Path |-> SystemNtdllPath],
     [Type |-> MEM_MAPPED, Path |-> SystemNtdllPath],
     [Type |-> MEM_IMAGE, Path |-> Wow64NtdllPath],
     [Type |-> MEM_IMAGE, Path |-> OtherDllPath],
     [Type |-> MEM_IMAGE, Path |-> ShortNtdllPath],
     [Type |-> MEM_PRIVATE, Path |-> <<>>]}

LowAllocationKinds ==
    {[Type |-> MEM_IMAGE, Path |-> SystemNtdllPath],
     [Type |-> MEM_PRIVATE, Path |-> <<>>]}

Allocation(base, granules, kind) ==
    [AllocationBase |-> base, RegionSize |-> granules * ScanStep,
     Type |-> kind.Type, Path |-> kind.Path]

\* An address space: one allocation near the top of the scanned range and,
\* possibly, one that begins at the scan's lower bound.
AddressSpaces ==
    { {a} \cup b :
        a \in { Allocation(ScanStart - off * ScanStep, n, k) :
                  off \in 0 .. MaxOffset, n \in 1 .. MaxAllocSize, k \in AllocationKinds },
        b \in {{}} \cup { {Allocation(ScanLowerBound, 2, k)} : k \in LowAllocationKinds } }

Contains(r, addr) == r.AllocationBase <= addr /\ addr < r.AllocationBase + r.RegionSize
Mapped(addr) == \E r \in space : Contains(r, addr)
RegionAt(addr) == CHOOSE r \in space : Contains(r, addr)

\* The final component of a path equals Name, ignoring case: how the loader
\* matches a module's BaseDllName.
BaseDllNameIs(Path, Name) ==
    /\ KexRtlUnicodeStringEndsWith(Path, Name, TRUE)
    /\ Len(Path) > Len(Name) => Path[Len(Path) - Len(Name)] = "\\"

\* LdrGetDllHandleByName(&NtdllBaseName, NULL, &NtdllBaseAddress): the bases
\* the loader can answer with.
LoaderBases ==
    { r.AllocationBase : r \in { q \in space : q.Type = MEM_IMAGE
                                              /\ BaseDllNameIs(q.Path, NtdllBaseName) } }

ScanIdle == [pc |-> "start", NtdllBaseAddress |-> NULL, result |-> NULL, via |-> "none"]
NoProbes == [iterations |-> 0, queries |-> 0, lastProbe |-> NULL, replaced |-> FALSE]

ScanUnused ==
    /\ space = {}
    /\ sc = ScanIdle
    /\ cnt = NoProbes

ScanStartState ==
    /\ space \in AddressSpaces
    /\ sc = ScanIdle
    /\ cnt = NoProbes

\* if (KexRtlCurrentProcessBitness() == KexRtlOperatingSystemBitness()) {
\*     Status = LdrGetDllHandleByName(...); if (NT_SUCCESS(Status)) return base; }
\* otherwise the scan starts at its first candidate.
ScanEnter ==
    /\ sc.pc = "start"
    /\ \E sameBitness \in BOOLEAN, answer \in {NULL} \cup LoaderBases :
          IF sameBitness /\ answer # NULL
          THEN sc' = [sc EXCEPT !.pc = "done", !.result = answer, !.via = "loader",
                                !.NtdllBaseAddress = answer]
          ELSE sc' = [sc EXCEPT !.pc = "scan", !.NtdllBaseAddress = ScanStart]
    /\ UNCHANGED <<space, cnt, wvars, evars, fvars, qvars>>

\* A slip that accepts every file-backed region, image or not.
RegionTypeAccepted_Any(Type) == TRUE

\* if (BasicInformation.Type != MEM_IMAGE) continue;
RegionTypeAccepted(Type) == Type = MEM_IMAGE

\* A slip that leaves the candidate where it is when an iteration ends.
NextCandidate_NoStep(Address) == Address

\* The loop's step: NtdllBaseAddress -= 0x10000
NextCandidate(Address) == Address - ScanStep

\* One iteration of the loop: the two NtQueryVirtualMemory calls at the
\* candidate, either of which may fail, the replacement of the candidate by
\* the region's allocation base, the type and name checks, and the step.
ScanIteration ==
    /\ sc.pc = "scan"
    /\ sc.NtdllBaseAddress > ScanLowerBound
    /\ LET probe == sc.NtdllBaseAddress
           fileBacked == Mapped(probe) /\ RegionAt(probe).Type \in {MEM_IMAGE, MEM_MAPPED}
       IN \E nameOk \in BOOLEAN, basicOk \in BOOLEAN :
            /\ nameOk => fileBacked
            /\ basicOk => nameOk
            /\ IF ~nameOk
               THEN /\ sc' = [sc EXCEPT !.NtdllBaseAddress = NextCandidate(probe)]
                    /\ cnt' = [cnt EXCEPT !.iterations = @ + 1, !.queries = @ + 1,
                                          !.lastProbe = probe]
               ELSE IF ~basicOk
               THEN /\ sc' = [sc EXCEPT !.NtdllBaseAddress = NextCandidate(probe)]
                    /\ cnt' = [cnt EXCEPT !.iterations = @ + 1, !.queries = @ + 2,
                                          !.lastProbe = probe]
               ELSE LET region == RegionAt(probe)
                        base == region.AllocationBase
                    IN /\ cnt' = [cnt EXCEPT !.iterations = @ + 1, !.queries = @ + 2,
                                             !.lastProbe = probe,
                                             !.replaced = @ \/ base < probe]
                       /\ IF /\ RegionTypeAccepted(region.Type)
                             /\ KexRtlUnicodeStringEndsWith(region.Path, NtdllPathFragment, TRUE)
                          THEN sc' = [sc EXCEPT !.pc = "done", !.result = base,
                                                !.via = "scan", !.NtdllBaseAddress = base]
                          ELSE sc' = [sc EXCEPT !.NtdllBaseAddress = NextCandidate(base)]
    /\ UNCHANGED <<space, wvars, evars, fvars, qvars>>

\* The loop condition fails: return NULL.
ScanExhausted ==
    /\ sc.pc = "scan"
    /\ ~(sc.NtdllBaseAddress > ScanLowerBound)
    /\ sc' = [sc EXCEPT !.pc = "done", !.result = NULL, !.via = "exhausted"]
    /\ UNCHANGED <<space, cnt, wvars, evars, fvars, qvars>>


\* ---- claims about KexRtlGetNativeSystemDllBase ----

\* Suffix ends String, ignoring case.
IsSuffixIgnoringCase(Suffix, String) ==
    /\ Len(Suffix) <= Len(String)
    /\ \A i \in 1 .. Len(Suffix) :
          Upcase(String[Len(String) - Len(Suffix) + i]) = Upcase(Suffix[i])

\* The candidate addresses of the loop as written: 0x7FFD0000 down to, and
\* not including, 0x70000000 in steps of 0x10000.
MaxScanIterations == (ScanStart - ScanLowerBound + ScanStep - 1) \div ScanStep

\* C2: a non-null base returned, by the loader or by the scan, is the base of
\* an image allocation whose mapped file name ends in ntdll.dll, ignoring
\* case; one returned by the scan ends in Windows\system32\ntdll.dll.
C2_ReturnedBaseIsSystemImage ==
    (sc.pc = "done" /\ sc.result # NULL) =>
        \E r \in space :
            /\ r.AllocationBase = sc.result
            /\ r.Type = MEM_IMAGE
            /\ IsSuffixIgnoringCase(NtdllBaseName, r.Path)
            /\ sc.via = "scan" => IsSuffixIgnoringCase(NtdllPathFragment, r.Path)

\* C2 witness: the scan returned an allocation base that lies below the
\* address it probed.
C2_Witness_ScanFoundImage ==
    /\ sc.pc = "done" /\ sc.via = "scan" /\ sc.result # NULL
    /\ sc.result < cnt.lastProbe

\* C4: each iteration leaves a candidate strictly below the address it
\* probed, the loop runs at most once per candidate address of its range, and
\* an exhausted range returns NULL.
C4_ScanDescendsAndTerminates ==
    /\ (sc.pc = "scan" /\ cnt.iterations > 0) => sc.NtdllBaseAddress < cnt.lastProbe
    /\ cnt.iterations > 0 => cnt.lastProbe <= ScanStart - (cnt.iterations - 1) * ScanStep
    /\ cnt.iterations <= MaxScanIterations
    /\ sc.via = "exhausted" => (sc.pc = "done" /\ sc.result = NULL)
    /\ (sc.pc = "done" /\ sc.via \notin {"loader", "scan"}) => sc.result = NULL

\* C4 witness: the range was exhausted, NULL was returned, and on the way a
\* candidate was replaced by a lower allocation base.
C4_Witness_ExhaustedAfterReplacement ==
    /\ sc.pc = "done" /\ sc.via = "exhausted" /\ sc.result = NULL
    /\ cnt.replaced
    /\ cnt.queries > cnt.iterations

\* C9 (as claimed): the scan never runs more than a few hundred iterations
\* nor issues more than a few hundred queries (999 is taken as the most
\* "a few hundred" can mean).
C9_FewHundredQueries ==
    cnt.iterations <= 999 /\ cnt.queries <= 999

-----------------------------------------------------------------------------
(***************************************************************************)
(* KexRtlMiniGetProcedureAddress                                           *)
(* The image is its export directory: the name table, the ordinal table    *)
(* (0-based indices into the address table) and the address table (RVAs).  *)
(***************************************************************************)

\* Bound on NumberOfNames of the modelled images.
MaxNames == 3

STATUS_INVALID_IMAGE_FORMAT == "STATUS_INVALID_IMAGE_FORMAT"
STATUS_ENTRYPOINT_NOT_FOUND == "STATUS_ENTRYPOINT_NOT_FOUND"

\* A null ProcedureName pointer (no exported name has this value).
NullName == "(null)"
ExportedNames == {"A", "B", "Foo"}
RequestedNames == {NullName, "A", "B", "Z", "Foo", "foo"}
\* A non-null DllBase: 0x10000000.
SomeDllBase == 4096 * ScanStep
\* The address table: RVAs 0x2000, 0x3000, 0x1000.
SomeFunctionRvas == <<8192, 12288, 4096>>

Images ==
    {[HasExportDirectory |-> FALSE, Names |-> <<>>, NameOrdinals |-> <<>>,
      FunctionRvas |-> <<>>]}
    \cup
    UNION { { [HasExportDirectory |-> TRUE, Names |-> names, NameOrdinals |-> ords,
               FunctionRvas |-> SomeFunctionRvas] :
                 names \in [1 .. n -> ExportedNames],
                 ords \in [1 .. n -> 0 .. (Len(SomeFunctionRvas) - 1)] } :
            n \in 0 .. MaxNames }

\* RVA_TO_VA(DllBase, Rva)
RVA_TO_VA(DllBase, Rva) == DllBase + Rva

\* StringEqualA(ProcedureName, CurrentProcedureName): exact, case-sensitive.
StringEqualA(Name1, Name2) == Name1 = Name2

ExportIdle ==
    [pc |-> "start", DllBase |-> NULL, ProcedureName |-> NullName, HasSlot |-> FALSE,
     Index |-> 0, ProcedureAddress |-> NULL, Status |-> NoStatus]

ExportUnused ==
    /\ img = [HasExportDirectory |-> FALSE, Names |-> <<>>, NameOrdinals |-> <<>>,
              FunctionRvas |-> <<>>]
    /\ ex = ExportIdle

ExportStart ==
    /\ img \in Images
    /\ ex = ExportIdle

\* Entry: the argument check, *ProcedureAddress = NULL, and the lookup of the
\* export directory (RtlImageDirectoryEntryToData).
ExportCall ==
    /\ ex.pc = "start"
    /\ \E base \in {NULL, SomeDllBase}, name \in RequestedNames, slot \in BOOLEAN :
          LET args == [ex EXCEPT !.DllBase = base, !.ProcedureName = name, !.HasSlot = slot]
          IN IF base = NULL \/ name = NullName \/ ~slot
             THEN ex' = [args EXCEPT !.pc = "done", !.Status = STATUS_INVALID_PARAMETER]
             ELSE IF ~img.HasExportDirectory
             THEN ex' = [args EXCEPT !.pc = "done", !.ProcedureAddress = NULL,
                                     !.Status = STATUS_INVALID_IMAGE_FORMAT]
             ELSE ex' = [args EXCEPT !.pc = "loop", !.ProcedureAddress = NULL, !.Index = 0]
    /\ UNCHANGED <<img, wvars, svars, fvars, qvars>>

\* A slip that indexes the address table by the name's index.
ExportedRva_NoOrdinal(Index) == img.FunctionRvas[Index + 1]

\* FunctionRvas[NameOrdinals[Index]] (Index is 0-based, as in the source).
ExportedRva(Index) == img.FunctionRvas[img.NameOrdinals[Index + 1] + 1]

\* One iteration of the loop over the name table, or its exit.
ExportLoop ==
    /\ ex.pc = "loop"
    /\ IF ex.Index < Len(img.Names)
       THEN IF StringEqualA(ex.ProcedureName, img.Names[ex.Index + 1])
            THEN ex' = [ex EXCEPT !.pc = "done",
                                  !.ProcedureAddress = RVA_TO_VA(ex.DllBase, ExportedRva(ex.Index)),
                                  !.Status = STATUS_SUCCESS]
            ELSE ex' = [ex EXCEPT !.Index = @ + 1]
       ELSE ex' = [ex EXCEPT !.pc = "done", !.Status = STATUS_ENTRYPOINT_NOT_FOUND]
    /\ UNCHANGED <<img, wvars, svars, fvars, qvars>>

\* ---- claims about KexRtlMiniGetProcedureAddress ----

NameIndices(name) == { i \in 1 .. Len(img.Names) : img.Names[i] = name }
FirstNameIndex(name) == CHOOSE i \in NameIndices(name) : \A j \in NameIndices(name) : i <= j

\* C3: with non-null arguments and an export directory, a call that has
\* returned found the requested name's first entry in the name table and
\* wrote base + AddressTable[OrdinalTable[i]], or, the name not being in the
\* table, returned entry-point-not-found.
C3_ResolvesFirstExactMatch ==
    (/\ ex.pc = "done"
     /\ ex.DllBase # NULL /\ ex.ProcedureName # NullName /\ ex.HasSlot
     /\ img.HasExportDirectory)
    => IF NameIndices(ex.ProcedureName) # {}
       THEN /\ ex.Status = STATUS_SUCCESS
            /\ ex.ProcedureAddress =
                  ex.DllBase
                  + img.FunctionRvas[img.NameOrdinals[FirstNameIndex(ex.ProcedureName)] + 1]
       ELSE /\ ex.Status = STATUS_ENTRYPOINT_NOT_FOUND
            /\ ex.ProcedureAddress = NULL

\* C3 witness: Foo, listed after B and with ordinal 0 mapped to RVA 0x2000, is
\* resolved to base + 0x2000.
C3_Witness_FooResolved ==
    /\ ex.pc = "done" /\ ex.Status = STATUS_SUCCESS
    /\ ex.ProcedureName = "Foo"
    /\ img.Names = <<"B", "A", "Foo">>
    /\ img.NameOrdinals = <<1, 2, 0>>
    /\ ex.ProcedureAddress = SomeDllBase + 8192

-----------------------------------------------------------------------------
(***************************************************************************)
(* KexRtlFindUnicodeSubstring                                              *)
(* Pointers into a buffer are 0-based character indices; lengths are in    *)
(* characters.  The memory past the end of each string is whatever the     *)
(* caller's buffers hold there: it is part of the input.                   *)
(***************************************************************************)

\* Bounds on the strings and on the memory past their ends.
MaxHaystack == 4
MaxNeedle == 3
MaxHaystackPast == 2
MaxNeedlePast == 1

NUL == "NUL"
FindChars == {"a", "A", "b"}
PastChars == {NUL, "a"}
\* The value returned for "not found": a null pointer.
NotFound == -1

\* ToUpper(c)
ToUpper(c) == Upcase(c)

SeqsUpTo(S, n) == UNION { [1 .. k -> S] : k \in 0 .. n }

FindInputs ==
    [Haystack : SeqsUpTo(FindChars, MaxHaystack),
     Needle : SeqsUpTo(FindChars, MaxNeedle),
     CaseInsensitive : BOOLEAN,
     HaystackPast : [1 .. MaxHaystackPast -> PastChars],
     NeedlePast : [1 .. MaxNeedlePast -> PastChars]]

FindIdle ==
    [pc |-> "start", HaystackBuffer |-> 0, NeedleBuffer |-> 0,
     StartOfNeedleInHaystack |-> 0, result |-> NotFound]

FindUnused ==
    /\ fin = [Haystack |-> <<>>, Needle |-> <<>>, CaseInsensitive |-> FALSE,
              HaystackPast |-> <<>>, NeedlePast |-> <<>>]
    /\ fd = FindIdle

FindStart ==
    /\ fin \in FindInputs
    /\ fd = FindIdle

LengthOfHaystack == Len(fin.Haystack)
LengthOfNeedle == Len(fin.Needle)
\* HaystackBufferEnd, HaystackBufferRealEnd, NeedleBufferEnd as indices.
HaystackBufferEnd == LengthOfHaystack - LengthOfNeedle
HaystackBufferRealEnd == HaystackBufferEnd + LengthOfNeedle
NeedleBufferEnd == LengthOfNeedle

\* Whether a read at an index stays inside the modelled memory.
HaystackReadable(i) == i < LengthOfHaystack + Len(fin.HaystackPast)
NeedleReadable(i) == i < LengthOfNeedle + Len(fin.NeedlePast)
\* *HaystackBuffer and *NeedleBuffer
HaystackAt(i) ==
    IF i < LengthOfHaystack THEN fin.Haystack[i + 1] ELSE fin.HaystackPast[i - LengthOfHaystack + 1]
NeedleAt(i) ==
    IF i < LengthOfNeedle THEN fin.Needle[i + 1] ELSE fin.NeedlePast[i - LengthOfNeedle + 1]

\* The character as the current mode compares it.
Folded(c) == IF fin.CaseInsensitive THEN ToUpper(c) ELSE c
\* NeedleFirst
NeedleFirst == Folded(NeedleAt(0))

\* Entry: the length checks and the set-up of the pointers; the outer loop's
\* NeedleBuffer = Needle->Buffer + 1.
FindEnter ==
    /\ fd.pc = "start"
    /\ IF LengthOfNeedle > LengthOfHaystack \/ LengthOfHaystack = 0 \/ LengthOfNeedle = 0
       THEN fd' = [fd EXCEPT !.pc = "done", !.result = NotFound]
       ELSE fd' = [fd EXCEPT !.pc = "first", !.HaystackBuffer = 0, !.NeedleBuffer = 1]
    /\ UNCHANGED <<fin, wvars, svars, evars, qvars>>

\* One test of the first inner loop: skip to the next occurrence of
\* NeedleFirst.  Both branches advance HaystackBuffer by one, on a mismatch
\* and (StartOfNeedleInHaystack = HaystackBuffer++) on a match.
FindFirstLoop ==
    /\ fd.pc = "first"
    /\ IF ~HaystackReadable(fd.HaystackBuffer)
       THEN fd' = [fd EXCEPT !.pc = "fault"]
       ELSE IF Folded(HaystackAt(fd.HaystackBuffer)) # NeedleFirst
       THEN IF fd.HaystackBuffer + 1 > HaystackBufferEnd
            THEN fd' = [fd EXCEPT !.pc = "done", !.result = NotFound,
                                  !.HaystackBuffer = @ + 1]
            ELSE fd' = [fd EXCEPT !.HaystackBuffer = @ + 1]
       ELSE fd' = [fd EXCEPT !.pc = "second",
                             !.StartOfNeedleInHaystack = fd.HaystackBuffer,
                             !.HaystackBuffer = @ + 1]
    /\ UNCHANGED <<fin, wvars, svars, evars, qvars>>

\* One test of the second inner loop: compare the rest of the needle.  When
\* the characters differ the outer loop starts over (NeedleBuffer =
\* Needle->Buffer + 1); the case-sensitive branch has by then advanced both
\* pointers (*HaystackBuffer++ == *NeedleBuffer++), the case-insensitive
\* branch has not.
FindSecondLoop ==
    /\ fd.pc = "second"
    /\ IF ~HaystackReadable(fd.HaystackBuffer) \/ ~NeedleReadable(fd.NeedleBuffer)
       THEN fd' = [fd EXCEPT !.pc = "fault"]
       ELSE IF Folded(HaystackAt(fd.HaystackBuffer)) = Folded(NeedleAt(fd.NeedleBuffer))
       THEN IF fd.HaystackBuffer + 1 > HaystackBufferRealEnd
            THEN fd' = [fd EXCEPT !.pc = "first", !.HaystackBuffer = @ + 1,
                                  !.NeedleBuffer = 1]
            ELSE IF fd.NeedleBuffer + 1 >= NeedleBufferEnd
            THEN fd' = [fd EXCEPT !.pc = "done", !.HaystackBuffer = @ + 1,
                                  !.NeedleBuffer = @ + 1,
                                  !.result = fd.StartOfNeedleInHaystack]
            ELSE fd' = [fd EXCEPT !.HaystackBuffer = @ + 1, !.NeedleBuffer = @ + 1]
       ELSE fd' = [fd EXCEPT !.pc = "first",
                             !.HaystackBuffer = IF fin.CaseInsensitive THEN @ ELSE @ + 1,
                             !.NeedleBuffer = 1]
    /\ UNCHANGED <<fin, wvars, svars, evars, qvars>>

\* ---- claims about KexRtlFindUnicodeSubstring ----

SameChar(c, d) == IF fin.CaseInsensitive THEN Upcase(c) = Upcase(d) ELSE c = d
\* The positions of Haystack at which Needle starts.
Occurrences ==
    { k \in 0 .. (LengthOfHaystack - LengthOfNeedle) :
        \A i \in 1 .. LengthOfNeedle : SameChar(fin.Haystack[k + i], fin.Needle[i]) }

\* C6 (as claimed): a call that has returned gives a position at which Needle
\* starts whenever Needle occurs in Haystack, and NULL exactly when it does
\* not occur or a string is empty.
C6_FindsEveryOccurringNeedle ==
    fd.pc = "done" =>
        IF LengthOfNeedle = 0 \/ LengthOfHaystack = 0 \/ Occurrences = {}
        THEN fd.result = NotFound
        ELSE fd.result \in Occurrences

-----------------------------------------------------------------------------
(***************************************************************************)
(* KexRtlQueryKeyValueData and KexRtlQueryKeyMultipleValueData             *)
(***************************************************************************)

\* Bound on the number of query table entries.
MaxEntries == 2

\* sizeof(KEY_VALUE_PARTIAL_INFORMATION) and the offset of its Data member.
SizeofKeyValuePartialInformation == 16
KeyValueDataOffset == 12
QUERY_KEY_MULTIPLE_VALUE_FAIL_FAST == 1

STATUS_INVALID_PARAMETER_1 == "STATUS_INVALID_PARAMETER_1"
STATUS_INVALID_PARAMETER_2 == "STATUS_INVALID_PARAMETER_2"
STATUS_INVALID_PARAMETER_3 == "STATUS_INVALID_PARAMETER_3"
STATUS_INVALID_PARAMETER_4 == "STATUS_INVALID_PARAMETER_4"
STATUS_INVALID_PARAMETER_5 == "STATUS_INVALID_PARAMETER_5"
STATUS_INVALID_PARAMETER_MIX == "STATUS_INVALID_PARAMETER_MIX"
STATUS_BUFFER_TOO_SMALL == "STATUS_BUFFER_TOO_SMALL"
STATUS_BUFFER_OVERFLOW == "STATUS_BUFFER_OVERFLOW"
STATUS_OBJECT_NAME_NOT_FOUND == "STATUS_OBJECT_NAME_NOT_FOUND"
STATUS_OBJECT_TYPE_MISMATCH == "STATUS_OBJECT_TYPE_MISMATCH"
STATUS_INSUFFICIENT_RESOURCES == "STATUS_INSUFFICIENT_RESOURCES"
STATUS_UNSUCCESSFUL == "STATUS_UNSUCCESSFUL"

REG_SZ == "REG_SZ"
REG_DWORD == "REG_DWORD"
REG_NONE == "REG_NONE"

\* The values under the key: a REG_DWORD, a REG_SZ of three characters, and a
\* name that has no value.
ValueNames == {"Dword", "String", "Missing"}
RegistryValues ==
    [n \in ValueNames |->
        CASE n = "Dword" -> [Exists |-> TRUE, Type |-> REG_DWORD, DataLength |-> 4]
          [] n = "String" -> [Exists |-> TRUE, Type |-> REG_SZ, DataLength |-> 6]
          [] OTHER -> [Exists |-> FALSE, Type |-> REG_NONE, DataLength |-> 0]]

\* NtQueryValueKey(KeyHandle, ValueName, KeyValuePartialInformation, buffer,
\* Length, &ResultLength): its status and what it leaves in ResultLength.
NtQueryValueKey(ValueName, Length, ResultLength) ==
    LET v == reg[ValueName]
        needed == KeyValueDataOffset + v.DataLength
    IN IF ~v.Exists
       THEN [Status |-> STATUS_OBJECT_NAME_NOT_FOUND, ResultLength |-> ResultLength]
       ELSE IF Length < KeyValueDataOffset
       THEN [Status |-> STATUS_BUFFER_TOO_SMALL, ResultLength |-> needed]
       ELSE IF Length < needed
       THEN [Status |-> STATUS_BUFFER_OVERFLOW, ResultLength |-> needed]
       ELSE [Status |-> STATUS_SUCCESS, ResultLength |-> needed]

\* KexRtlQueryKeyValueData on one table entry: the entry with its Status,
\* ValueDataCb and ValueDataType as the call leaves them.  allocOk is
\* whether SafeAlloc returns a buffer.
KexRtlQueryKeyValueData(KeyHandleValid, e, allocOk) ==
    IF ~KeyHandleValid THEN [e EXCEPT !.Status = STATUS_INVALID_PARAMETER_1]
    ELSE IF e.HasValueData /\ e.ValueDataCb = 0
    THEN [e EXCEPT !.Status = STATUS_INVALID_PARAMETER_MIX]
    ELSE IF ~e.HasValueData /\ e.ValueDataCb # 0
    THEN [e EXCEPT !.Status = STATUS_INVALID_PARAMETER_MIX]
    ELSE IF e.ValueDataTypeRestrict = {}
    THEN [e EXCEPT !.Status = STATUS_INVALID_PARAMETER_5]
    ELSE IF e.ValueDataCb = 0
    THEN LET q == NtQueryValueKey(e.ValueName, 0, e.ValueDataCb)
         IN [e EXCEPT !.Status = q.Status,
                      !.ValueDataCb = IF q.Status = STATUS_BUFFER_TOO_SMALL
                                      THEN q.ResultLength - SizeofKeyValuePartialInformation
                                      ELSE q.ResultLength]
    ELSE IF ~allocOk
    THEN [e EXCEPT !.Status = STATUS_INSUFFICIENT_RESOURCES]
    ELSE LET q == NtQueryValueKey(e.ValueName,
                                  e.ValueDataCb + SizeofKeyValuePartialInformation,
                                  e.ValueDataCb)
         IN IF ~NT_SUCCESS(q.Status)
            THEN [e EXCEPT !.Status = q.Status, !.ValueDataCb = q.ResultLength]
            ELSE IF reg[e.ValueName].Type \notin e.ValueDataTypeRestrict
            THEN [e EXCEPT !.Status = STATUS_OBJECT_TYPE_MISMATCH,
                           !.ValueDataCb = q.ResultLength - SizeofKeyValuePartialInformation,
                           !.ValueDataType = reg[e.ValueName].Type]
            ELSE [e EXCEPT !.Status = STATUS_SUCCESS,
                           !.ValueDataCb = q.ResultLength - SizeofKeyValuePartialInformation,
                           !.ValueDataType = reg[e.ValueName].Type]

\* The entries a caller can put in a query table.
QueryEntries ==
    { [ValueName |-> n, ValueDataCb |-> b.cb, HasValueData |-> b.has,
       ValueDataTypeRestrict |-> r, ValueDataType |-> REG_NONE, Status |-> NoStatus] :
        n \in ValueNames,
        b \in {[cb |-> 0, has |-> FALSE], [cb |-> 4, has |-> TRUE],
               [cb |-> 8, has |-> TRUE], [cb |-> 0, has |-> TRUE]},
        r \in {{}, {REG_DWORD}, {REG_SZ, REG_DWORD}} }

QueryIdle ==
    [pc |-> "start", KeyHandleValid |-> TRUE, HasQueryTable |-> FALSE, Table |-> <<>>,
     HasNumberOfQueryTableElements |-> FALSE, NumberOfQueryTableElements |-> 0,
     Flags |-> 0, Counter |-> 0, QueryTable |-> 0, Status |-> NoStatus]

QueryUnused ==
    /\ reg = RegistryValues
    /\ qk = QueryIdle

\* The arguments of a call: a key handle, a table (or no table), the number
\* of its elements (or zero, or no pointer to a number), and the flags.
QueryStart ==
    /\ reg = RegistryValues
    /\ \E table \in UNION { [1 .. k -> QueryEntries] : k \in 1 .. MaxEntries },
          handle \in BOOLEAN, hasTable \in BOOLEAN, hasNumber \in BOOLEAN,
          number \in 0 .. MaxEntries, flags \in 0 .. 2 :
          /\ number \in {0, Len(table)}
          /\ (~hasTable \/ ~hasNumber \/ number = 0) => (handle /\ flags = 0)
          /\ qk = [QueryIdle EXCEPT !.KeyHandleValid = handle, !.HasQueryTable = hasTable,
                                    !.Table = table,
                                    !.HasNumberOfQueryTableElements = hasNumber,
                                    !.NumberOfQueryTableElements = number,
                                    !.Flags = flags]

FailFast(Flags) == Flags % 2 = QUERY_KEY_MULTIPLE_VALUE_FAIL_FAST
\* Flags & ~(QUERY_KEY_MULTIPLE_VALUE_FAIL_FAST)
InvalidFlags(Flags) == Flags - (Flags % 2) # 0

\* Entry: the argument checks, Counter = *NumberOfQueryTableElements,
\* *NumberOfQueryTableElements = 0, and the check of Flags.
QueryEnter ==
    /\ qk.pc = "start"
    /\ IF ~qk.HasQueryTable
       THEN qk' = [qk EXCEPT !.pc = "done", !.Status = STATUS_INVALID_PARAMETER_2]
       ELSE IF ~qk.HasNumberOfQueryTableElements \/ qk.NumberOfQueryTableElements = 0
       THEN qk' = [qk EXCEPT !.pc = "done", !.Status = STATUS_INVALID_PARAMETER_3]
       ELSE IF InvalidFlags(qk.Flags)
       THEN qk' = [qk EXCEPT !.pc = "done", !.Status = STATUS_INVALID_PARAMETER_4,
                             !.Counter = qk.NumberOfQueryTableElements,
                             !.NumberOfQueryTableElements = 0]
       ELSE qk' = [qk EXCEPT !.pc = "loop",
                             !.Counter = qk.NumberOfQueryTableElements,
                             !.NumberOfQueryTableElements = 0,
                             !.QueryTable = 0]
    /\ UNCHANGED <<reg, wvars, svars, evars, fvars>>

\* One pass of the do-while loop: the query of the current entry, the
\* FAIL_FAST return, ++QueryTable, ++*NumberOfQueryTableElements, --Counter.
QueryLoop ==
    /\ qk.pc = "loop"
    /\ \E allocOk \in BOOLEAN :
          LET i == qk.QueryTable + 1
              e == KexRtlQueryKeyValueData(qk.KeyHandleValid, qk.Table[i], allocOk)
              queried == [qk EXCEPT !.Table[i] = e]
          IN IF FailFast(qk.Flags) /\ ~NT_SUCCESS(e.Status)
             THEN qk' = [queried EXCEPT !.pc = "done", !.Status = STATUS_UNSUCCESSFUL]
             ELSE IF qk.Counter - 1 # 0
             THEN qk' = [queried EXCEPT !.QueryTable = @ + 1,
                                        !.NumberOfQueryTableElements = @ + 1,
                                        !.Counter = @ - 1]
             ELSE qk' = [queried EXCEPT !.pc = "done", !.Status = STATUS_SUCCESS,
                                        !.QueryTable = @ + 1,
                                        !.NumberOfQueryTableElements = @ + 1,
                                        !.Counter = @ - 1]
    /\ UNCHANGED <<reg, wvars, svars, evars, fvars>>

\* ---- claims about KexRtlQueryKeyMultipleValueData ----

ValidQueryArguments ==
    qk.HasQueryTable /\ qk.HasNumberOfQueryTableElements /\ ~InvalidFlags(qk.Flags)
SuccessfullyQueried == { i \in 1 .. Len(qk.Table) : qk.Table[i].Status = STATUS_SUCCESS }
Queried == { i \in 1 .. Len(qk.Table) : qk.Table[i].Status # NoStatus }

\* C7 (as claimed): when a call on a query table has returned,
\* *NumberOfQueryTableElements is the number of values successfully queried;
\* without FAIL_FAST every entry was queried and holds its own status, and
\* the call returned success.
C7_CountsSuccessfulQueries ==
    (qk.pc = "done" /\ ValidQueryArguments /\ qk.Status # STATUS_INVALID_PARAMETER_3) =>
        /\ qk.NumberOfQueryTableElements = Cardinality(SuccessfullyQueried)
        /\ ~FailFast(qk.Flags) =>
              /\ Queried = 1 .. Len(qk.Table)
              /\ qk.Status = STATUS_SUCCESS

-----------------------------------------------------------------------------
(***************************************************************************)
(* Specifications: one per routine.                                        *)
(***************************************************************************)

InitWrite == WriteStart /\ ScanUnused /\ ExportUnused /\ FindUnused /\ QueryUnused

NextWrite ==
    \E t \in Callers : WriteCall(t) \/ ProtectStep(t) \/ WriteStep(t) \/ RestoreStep(t)

SpecWrite == InitWrite /\ [][NextWrite]_vars

InitScan == ScanStartState /\ WriteUnused /\ ExportUnused /\ FindUnused /\ QueryUnused

NextScan == ScanEnter \/ ScanIteration \/ ScanExhausted

SpecScan == InitScan /\ [][NextScan]_vars

InitExport == ExportStart /\ WriteUnused /\ ScanUnused /\ FindUnused /\ QueryUnused

NextExport == ExportCall \/ ExportLoop

SpecExport == InitExport /\ [][NextExport]_vars

InitFind == FindStart /\ WriteUnused /\ ScanUnused /\ ExportUnused /\ QueryUnused

NextFind == FindEnter \/ FindFirstLoop \/ FindSecondLoop

SpecFind == InitFind /\ [][NextFind]_vars

InitQuery == QueryStart /\ WriteUnused /\ ScanUnused /\ ExportUnused /\ FindUnused

NextQuery == QueryEnter \/ QueryLoop

SpecQuery == InitQuery /\ [][NextQuery]_vars

====
